---- MODULE Spec2Model ----
(***************************************************************************)
(* Streaming token relay of sample-serverless-llm-on-aws.                  *)
(*                                                                         *)
(* Two relay variants are modelled from their handlers:                    *)
(*   - the WebSocket stream handler (websocket_api/stream.py), which posts *)
(*     every token to one connection through post_to_connection;           *)
(*   - the AppSync processing handler (appsync/processing.py), which is    *)
(*     triggered by the streaming queue, runs process_streaming_request    *)
(*     for every record and publishes through publish_token_to_appsync.    *)
(* A behaviour runs one variant, chosen in Init by mode.                   *)
(* A behaviour that compares runs (prev.on) gives a later run the backend  *)
(* events and the sink answers of the run before it.                       *)
(***************************************************************************)
EXTENDS Integers, Sequences, FiniteSets, TLC

\* ---------------------------------------------------------------- bounds
\* chunks one relay run pulls from the backend stream
MaxChunks == 2
\* start requests served by the request handler
MaxStarts == 1
\* records of the event in a batch invocation
BatchRecords == 2

\* ------------------------------------------------------ program constants
\* dead_letter_queue max_receive_count of the streaming queue
MaxReceiveCount == 3
\* batch_size of the SQS event source
BatchSize == 1
\* sequence given to the error fragment by process_streaming_request
ErrorSequence == 999
\* "max_tokens" of the request to the model
MaxTokens == 1000

\* ------------------------------------------------------------ input sets
Texts == {"a", "b"}
Prompts == {"hi"}
SessionIds == {"s1", "s2", "s3"}
connection_id == "c1"
aws_request_id == "req"
BackendErrors == {"upstream stalled"}
InvokeErrors == {"invoke failed"}
PostError == "post_to_connection failed"

VARIABLES
    mode,               \* "ws" | "appsync": the variant this behaviour runs
    pc,                 \* position of the handler
    token_count,        \* local token_count of the relay run
    text,               \* local text: the delta being sent
    pulled,             \* chunks pulled from response["body"] in this run
    chunk,              \* loop variable chunk: the chunk pulled last
    stream,             \* in a behaviour that compares runs: what the backend
                        \* did in this run, in order
    prev,               \* in a behaviour that compares runs: the backend events,
                        \* the sink calls and the result of the run before
    deltas,             \* the non-empty text deltas pulled in this run, in order
    sends,              \* the sink calls of this run, in call order, with results
    error_message,      \* str(e) of the exception being handled
    log,                \* the run's log lines (print), as tags
    ws_body,            \* event["body"] of the WebSocket request
    ws_ret,             \* what the WebSocket handler returned
    queue,              \* visible messages of StreamingQueue
    dlq,                \* messages of StreamingDLQ
    event,              \* event["Records"] of the running invocation
    idx,                \* position of the for loop over the records
    failed_message_ids, \* local failed_message_ids of lambda_handler
    response,           \* what the processing handler returned last
    session_id,         \* local session_id of process_streaming_request
    success,            \* result of process_streaming_request
    outcomes,           \* per record of this invocation: how its processing ended
    delivered,          \* per session, over all runs: the sequence of the last fragment
                        \* AppSync accepted and how many complete ones it accepted
    started,            \* start requests served
    responses,          \* replies of the request handler
    running,            \* per concurrent invocation of the processing handler:
                        \* its event["Records"]
    run,                \* per concurrent invocation: token_count, the fragments
                        \* published and the result of process_streaming_request
    publishing,         \* one call of publish_token_to_appsync: its arguments,
                        \* what it meets and what it gives back
    authorizing         \* one invocation of the WebSocket authorizer: its event,
                        \* what the verification meets and the policy returned

relayVars == <<token_count, text, pulled, chunk, stream, deltas, sends, error_message,
               log>>
wsVars == <<ws_body, ws_ret>>
queueVars == <<queue, dlq, event, idx, failed_message_ids, response, session_id,
               success, outcomes, delivered, started, responses>>
ccVars == <<running, run>>
fnVars == <<publishing, authorizing>>
vars == <<mode, prev, pc, relayVars, wsVars, queueVars, ccVars, fnVars>>

\* ------------------------------------------------------------- JSON text
\* A JSON value: an object is a set of <<key, value>> pairs of strings.
JObj(pairs) == [t |-> "object", fields |-> pairs]
JArr == [t |-> "array", fields |-> {}]
\* A JSON text is well formed or not; json.dumps gives well-formed text.
JsonDumps(v) == [wellformed |-> TRUE, value |-> v]
NotJson == [wellformed |-> FALSE, value |-> JArr]
JsonLoadsLenient(s) == [ok |-> TRUE, value |-> s.value]
\* json.loads: the value of a well-formed text, JSONDecodeError otherwise
JsonLoads(s) ==
    IF s.wellformed THEN [ok |-> TRUE, value |-> s.value]
                    ELSE [ok |-> FALSE, value |-> JArr]
\* v[k] of Python: TypeError unless v is a dict, KeyError unless k is a key
HasKey(v, k) == v.t = "object" /\ \E p \in v.fields : p[1] = k
Subscript(v, k) == (CHOOSE p \in v.fields : p[1] = k)[2]

\* ------------------------------------------------------- backend chunks
Chunks ==
    [hasChunk : {TRUE}, type : {"content_block_delta"}, text : Texts \cup {""}]
    \cup [hasChunk : {TRUE}, type : {"message_start"}, text : {""}]
    \cup [hasChunk : {FALSE}, type : {""}, text : {""}]

\* events of the backend other than chunks: the invocation returned the
\* stream, the stream is exhausted, the invocation or the stream raised
Invoked == [hasChunk |-> FALSE, type |-> "invoked", text |-> ""]
EndOfStream == [hasChunk |-> FALSE, type |-> "StopIteration", text |-> ""]
Raised(e) == [hasChunk |-> FALSE, type |-> "raise", text |-> e]

\* A behaviour that compares runs (prev.on) keeps the events of the backend and
\* gives the run that follows another one (prev.valid) the same backend
\* events and the same sink answers, as far as the earlier run had any.
NoPrev(on) ==
    [on |-> on, valid |-> FALSE, stream |-> <<>>, sends |-> <<>>, success |-> FALSE,
     log |-> <<>>]
Heard(ev) == stream' = IF prev.on THEN Append(stream, ev) ELSE stream
BackendGives(ev) ==
    (prev.valid /\ Len(stream) < Len(prev.stream)) => prev.stream[Len(stream) + 1] = ev
SinkAnswers(r) ==
    (prev.valid /\ Len(sends) < Len(prev.sends)) => prev.sends[Len(sends) + 1].result = r
\* the run that ends becomes the run before
Remember ==
    prev' = IF prev.on
            THEN [on |-> TRUE, valid |-> TRUE, stream |-> stream, sends |-> sends,
                  success |-> success, log |-> log]
            ELSE prev

\* an event of the stream that carries no chunk; the loop variable before the
\* first iteration is modelled as one
NoChunk == [hasChunk |-> FALSE, type |-> "", text |-> ""]

IsContentAnyText(c) == c.hasChunk /\ c.type = "content_block_delta"
\* if "chunk" in chunk / type == "content_block_delta" / if text
IsContent(c) ==
    c.hasChunk /\ c.type = "content_block_delta" /\ c.text # ""

NextTokenCountStuck(n) == n
NextTokenCountResumes(n) ==
    IF mode = "appsync" /\ n = 0 THEN delivered[session_id].last + 1 ELSE n + 1
\* token_count += 1
NextTokenCount(n) == n + 1

AfterDeltaBuffered(here, toSend) == here
\* the send of a delta is in the body of the loop: it comes before the next
\* chunk is pulled
AfterDelta(here, toSend) == toSend

\* for chunk in response["body"]: one iteration up to the send, the end of the
\* stream, or an exception raised by the stream or by the decoding of a chunk
Pull(here, toSend, toComplete, toExcept) ==
    /\ pc = here
    /\ \/ /\ pulled < MaxChunks
          /\ \E c \in Chunks :
                /\ BackendGives(c) /\ Heard(c)
                /\ pulled' = pulled + 1
                /\ chunk' = c
                /\ IF IsContent(c)
                   THEN /\ token_count' = NextTokenCount(token_count)
                        /\ text' = c.text
                        /\ deltas' = Append(deltas, c.text)
                        /\ pc' = AfterDelta(here, toSend)
                   ELSE /\ UNCHANGED <<token_count, text, deltas>>
                        /\ pc' = here
          /\ UNCHANGED <<error_message, log>>
       \/ /\ BackendGives(EndOfStream) /\ Heard(EndOfStream)
          /\ pc' = toComplete
          /\ UNCHANGED <<token_count, text, pulled, chunk, deltas, error_message, log>>
       \/ /\ \E e \in BackendErrors :
                /\ BackendGives(Raised(e)) /\ Heard(Raised(e))
                /\ error_message' = e
          /\ pc' = toExcept
          /\ UNCHANGED <<token_count, text, pulled, chunk, deltas, log>>
    /\ UNCHANGED <<fnVars, mode, prev, ccVars, sends, wsVars, queueVars>>

\* bedrock_runtime.invoke_model_with_response_stream inside the try
Invoke(here, toPull, toExcept) ==
    /\ pc = here
    /\ \/ /\ BackendGives(Invoked) /\ Heard(Invoked)
          /\ token_count' = 0
          /\ pc' = toPull
          /\ UNCHANGED error_message
       \/ /\ \E e \in InvokeErrors :
                /\ BackendGives(Raised(e)) /\ Heard(Raised(e))
                /\ error_message' = e
          /\ pc' = toExcept
          /\ UNCHANGED token_count
    /\ UNCHANGED <<fnVars, mode, prev, ccVars, text, pulled, chunk, deltas, sends, log, wsVars, queueVars>>

\* ------------------------------------------------ WebSocket stream handler
WsBodies ==
    { JsonDumps(JObj({<<"action", "stream">>, <<"prompt", p>>})) : p \in Prompts }
    \cup {NotJson, JsonDumps(JArr)}

WsTokenMsg(t, n) == [type |-> "token", token |-> t, sequence |-> n]
WsCompleteMsg(n) ==
    [type |-> "complete", total_tokens |-> n, timestamp |-> aws_request_id]
WsErrorMsg(e) == [type |-> "error", message |-> e, timestamp |-> aws_request_id]
WsCall(data, r) == [ConnectionId |-> connection_id, Data |-> data, result |-> r]
\* post_to_connection: accepted, GoneException, or any other exception
PostResults == {"ok", "gone", "error"}

\* body = json.loads(event.get("body", "{}")) and body.get(...): invalid JSON is
\* answered with 400; on a body that is no object body.get raises
\* AttributeError, which only json.JSONDecodeError would catch
WsStart ==
    /\ mode = "ws" /\ pc = "ws_start"
    /\ LET parsed == JsonLoads(ws_body) IN
       IF ~parsed.ok
       THEN /\ ws_ret' = "400"
            /\ log' = Append(log, "invalid_json")
            /\ pc' = "done"
       ELSE IF parsed.value.t # "object"
       THEN /\ ws_ret' = "unhandled"
            /\ pc' = "done"
            /\ UNCHANGED log
       ELSE /\ pc' = "ws_invoke"
            /\ UNCHANGED <<ws_ret, log>>
    /\ UNCHANGED <<fnVars, mode, prev, ccVars, token_count, text, pulled, chunk, stream, deltas, sends, error_message,
                   ws_body, queueVars>>

WsInvoke == mode = "ws" /\ Invoke("ws_invoke", "ws_pull", "ws_except")

WsPull == mode = "ws" /\ Pull("ws_pull", "ws_send", "ws_complete", "ws_except")

\* where the handler goes after post_to_connection of a token
WsAfterTokenSend(r) ==
    CASE r = "ok" -> "ws_pull"
      [] r = "gone" -> "ws_complete"
      [] OTHER -> "ws_except"

WsSend ==
    /\ mode = "ws" /\ pc = "ws_send"
    /\ \E r \in PostResults :
          /\ SinkAnswers(r)
          /\ sends' = Append(sends, WsCall(WsTokenMsg(text, token_count), r))
          /\ pc' = WsAfterTokenSend(r)
          /\ log' = IF r = "gone" THEN Append(log, "closed_during_streaming")
                                  ELSE log
          /\ error_message' = IF r = "error" THEN PostError ELSE error_message
    /\ UNCHANGED <<fnVars, mode, prev, ccVars, token_count, text, pulled, chunk, stream, deltas, wsVars, queueVars>>

\* where the handler goes after post_to_connection of the completion
WsAfterCompleteSend(r) == IF r = "error" THEN "ws_except" ELSE "ws_return"

WsComplete ==
    /\ mode = "ws" /\ pc = "ws_complete"
    /\ \E r \in PostResults :
          /\ SinkAnswers(r)
          /\ sends' = Append(sends, WsCall(WsCompleteMsg(token_count), r))
          /\ pc' = WsAfterCompleteSend(r)
          /\ log' = IF r = "ok" THEN Append(log, "completed") ELSE log
          /\ error_message' = IF r = "error" THEN PostError ELSE error_message
    /\ UNCHANGED <<fnVars, mode, prev, ccVars, token_count, text, pulled, chunk, stream, deltas, wsVars, queueVars>>

WsAfterErrorSendRaises(r) == IF r = "ok" THEN "ws_return" ELSE "done"
\* where the handler goes after post_to_connection of the error message: the
\* bare except around it swallows every exception
WsAfterErrorSend(r) == "ws_return"

\* except Exception: the error message; an exception that left this handler
\* would end the invocation unhandled
WsExcept ==
    /\ mode = "ws" /\ pc = "ws_except"
    /\ \E r \in PostResults :
          /\ SinkAnswers(r)
          /\ sends' = Append(sends, WsCall(WsErrorMsg(error_message), r))
          /\ log' = IF r = "ok"
                    THEN Append(log, "streaming_error")
                    ELSE log \o <<"streaming_error", "could_not_send_error">>
          /\ pc' = WsAfterErrorSend(r)
    /\ ws_ret' = IF pc' = "done" THEN "unhandled" ELSE ws_ret
    /\ UNCHANGED <<fnVars, mode, prev, ccVars, token_count, text, pulled, chunk, stream, deltas, error_message, ws_body,
                   queueVars>>

WsReturn ==
    /\ mode = "ws" /\ pc = "ws_return"
    /\ ws_ret' = "200"
    /\ pc' = "done"
    /\ UNCHANGED <<fnVars, mode, prev, ccVars, relayVars, ws_body, queueVars>>

\* API Gateway invokes the handler once more for the same request on the same
\* connection (taken once, in a behaviour that compares runs)
WsAgain ==
    /\ mode = "ws" /\ pc = "done" /\ ws_ret = "200"
    /\ prev.on /\ ~prev.valid
    /\ Remember
    /\ token_count' = 0 /\ text' = "" /\ pulled' = 0 /\ chunk' = NoChunk
    /\ stream' = <<>> /\ deltas' = <<>> /\ sends' = <<>> /\ error_message' = ""
    /\ log' = <<>>
    /\ ws_ret' = "pending"
    /\ pc' = "ws_start"
    /\ UNCHANGED <<fnVars, mode, ccVars, ws_body, queueVars>>

\* ------------------------------------------- AppSync processing handler
\* the arguments of one call of publish_token_to_appsync
AsFragment(sid, t, c, n) ==
    [session_id |-> sid, token |-> t, is_complete |-> c, sequence |-> n]
\* variables = {"sessionId": ..., "token": ..., "isComplete": ...}
PublishVariables(f) ==
    [sessionId |-> f.session_id, token |-> f.token, isComplete |-> f.is_complete]
\* What one call of publish_token_to_appsync meets: the signing of the
\* request, the transport (urlopen raises on a timeout, a network failure and
\* an HTTP error status) and the body of the HTTP response.
ResponseBodies == {"data", "errors", "null", "not_json"}
PublishMeets ==
    { [signing |-> "raises", transport |-> "unreached", body |-> "unread"],
      [signing |-> "signed", transport |-> "raises", body |-> "unread"] }
    \cup { [signing |-> "signed", transport |-> "answered", body |-> b] :
              b \in ResponseBodies }
Returned(v) == [raised |-> FALSE, value |-> v]
RaisedInside == [raised |-> TRUE, value |-> FALSE]
\* the try block of publish_token_to_appsync: json.loads raises on a body that
\* is not JSON, `"errors" in result` raises on a null result
PublishTry(m) ==
    IF m.signing = "raises" \/ m.transport = "raises" THEN RaisedInside
    ELSE IF m.body \in {"not_json", "null"} THEN RaisedInside
    ELSE IF m.body = "errors" THEN Returned(FALSE)
    ELSE Returned(TRUE)
PublishTokenUnguarded(m) == PublishTry(m)
\* publish_token_to_appsync: the try block, and `except Exception` returning
\* False
PublishTokenToAppsync(m) ==
    IF PublishTry(m).raised THEN Returned(FALSE) ELSE PublishTry(m)
\* what process_streaming_request can get back from a call
PublishResults == { PublishTokenToAppsync(m).value : m \in PublishMeets }
AsCall(f, r) == [args |-> f, result |-> r]

AsTokenFragmentComplete(sid, t, n) == AsFragment(sid, t, TRUE, n)
AsTokenFragment(sid, t, n) == AsFragment(sid, t, FALSE, n)
AsCompleteFragment(sid, n) == AsFragment(sid, "", TRUE, n + 1)
AsErrorFragmentOpen(sid, e) == AsFragment(sid, "Error: " \o e, FALSE, ErrorSequence)
AsErrorFragment(sid, e) == AsFragment(sid, "Error: " \o e, TRUE, ErrorSequence)

\* what the subscribers of a session have seen once fragment f is accepted
Accept(d, f) ==
    [last |-> f.sequence,
     completes |-> d.completes + (IF f.is_complete THEN 1 ELSE 0)]

\* one call of publish_token_to_appsync: the mutation reaches the subscribers
\* of the session when it is accepted
Publish(f) ==
    \E r \in PublishResults :
        /\ SinkAnswers(r)
        /\ sends' = Append(sends, AsCall(f, r))
        /\ delivered' = IF r THEN [delivered EXCEPT ![f.session_id] = Accept(@, f)]
                             ELSE delivered

\* bodies of messages other senders may have put on the queue
MalformedBodies ==
    {NotJson, JsonDumps(JArr), JsonDumps(JObj({<<"prompt", "hi">>}))}

StartBodyFixedSession(prompt, sid) ==
    JsonDumps(JObj({<<"prompt", prompt>>, <<"sessionId", "s3">>,
                    <<"requestId", aws_request_id>>, <<"timestamp", "now">>}))
StartBodyDefaultPrompt(prompt, sid) ==
    JsonDumps(JObj({<<"prompt", "Hello, how are you?">>, <<"sessionId", sid>>,
                    <<"requestId", aws_request_id>>, <<"timestamp", "now">>}))
\* MessageBody=json.dumps({...}) of the request handler
StartBody(prompt, sid) ==
    JsonDumps(JObj({<<"prompt", prompt>>, <<"sessionId", sid>>,
                    <<"requestId", aws_request_id>>, <<"timestamp", "now">>}))

Message(id, body) == [messageId |-> id, body |-> body, receiveCount |-> 0]

\* str(uuid.uuid4()): an id no earlier request was given; ids are opaque, so
\* one fresh id stands for all of them
NewSessionId(used) == CHOOSE sid \in SessionIds : sid \notin used

\* request.py lambda_handler: a fresh session id, the message on the queue or the
\* failure of send_message. The queue is all it shares with the processing
\* handler, which does not read it between receive and return, so the step is
\* taken between invocations.
StartStream ==
    /\ mode = "appsync" /\ pc = "idle"
    /\ started < MaxStarts
    /\ \E prompt \in Prompts :
       LET sid == NewSessionId({ responses[i].sessionId : i \in DOMAIN responses }) IN
          \/ /\ queue' = queue \cup {Message(started + 1, StartBody(prompt, sid))}
             /\ responses' = Append(responses,
                    [sessionId |-> sid, status |-> "streaming_started",
                     message |-> "AI streaming session initiated. Subscribe to receive real-time tokens.",
                     error |-> ""])
          \/ /\ UNCHANGED queue
             /\ responses' = Append(responses,
                    [sessionId |-> sid, status |-> "error", message |-> "",
                     error |-> "Failed to initiate streaming: send_message failed"])
    /\ started' = started + 1
    /\ UNCHANGED <<fnVars, mode, prev, ccVars, pc, relayVars, wsVars, dlq, event, idx, failed_message_ids,
                   response, session_id, success, outcomes, delivered>>

StillVisible(q, taken) == q
\* visibility_timeout (16 minutes, above the 15 minutes of the function): a
\* message that was received is not visible while its invocation runs
Hidden(q, taken) == q \ taken

\* the event source polls the queue: a batch of at most BatchSize visible
\* messages becomes event["Records"]
AsReceive ==
    /\ mode = "appsync" /\ pc = "idle"
    /\ \E n \in 1..BatchSize :
       \E batch \in [1..n -> queue] :
          /\ \A i, j \in 1..n : batch[i] = batch[j] => i = j
          /\ event' = [i \in 1..n |->
                          [batch[i] EXCEPT !.receiveCount = @ + 1]]
          /\ queue' = Hidden(queue, { batch[i] : i \in 1..n })
    /\ idx' = 1
    /\ failed_message_ids' = <<>>
    /\ outcomes' = <<>>
    /\ pc' = "record"
    /\ UNCHANGED <<fnVars, mode, prev, ccVars, relayVars, wsVars, dlq, response, session_id, success,
                   delivered, started, responses>>

MarksFailedOnFalseOnly(outcome) == outcome = "false"
\* the handler lists a record in failed_message_ids when its run returned
\* False or raised anything but json.JSONDecodeError
MarksFailed(outcome) == outcome \in {"false", "raised"}

FinishRecordLeavesLoop(outcome) ==
    /\ outcomes' = Append(outcomes,
                          [messageId |-> event[idx].messageId, outcome |-> outcome])
    /\ failed_message_ids' =
          IF MarksFailed(outcome)
          THEN Append(failed_message_ids, [itemIdentifier |-> event[idx].messageId])
          ELSE failed_message_ids
    /\ idx' = IF MarksFailed(outcome) THEN Len(event) + 1 ELSE idx + 1
    /\ pc' = "record"
\* end of one iteration of the for loop over the records
FinishRecord(outcome) ==
    /\ outcomes' = Append(outcomes,
                          [messageId |-> event[idx].messageId, outcome |-> outcome])
    /\ failed_message_ids' =
          IF MarksFailed(outcome)
          THEN Append(failed_message_ids, [itemIdentifier |-> event[idx].messageId])
          ELSE failed_message_ids
    /\ idx' = idx + 1
    /\ pc' = "record"

LocalsKept ==
    UNCHANGED <<token_count, text, pulled, chunk, stream, deltas, sends, error_message,
                log, session_id, success>>
\* the locals of process_streaming_request do not outlive the call
LocalsGone ==
    /\ token_count' = 0 /\ text' = "" /\ pulled' = 0 /\ deltas' = <<>>
    /\ chunk' = NoChunk /\ stream' = <<>>
    /\ sends' = <<>> /\ error_message' = "" /\ log' = <<>>
    /\ session_id' = "" /\ success' = FALSE

\* json.loads(record["body"]), then message_body["prompt"] and
\* message_body["sessionId"] at the head of process_streaming_request
AsRecord ==
    /\ mode = "appsync" /\ pc = "record" /\ idx <= Len(event)
    /\ LET parsed == JsonLoads(event[idx].body) IN
       IF ~parsed.ok
       THEN /\ FinishRecord("invalid_json")
            /\ UNCHANGED session_id
       ELSE IF ~(HasKey(parsed.value, "prompt") /\ HasKey(parsed.value, "sessionId"))
       THEN /\ FinishRecord("raised")
            /\ UNCHANGED session_id
       ELSE /\ session_id' = Subscript(parsed.value, "sessionId")
            /\ pc' = "as_invoke"
            /\ UNCHANGED <<outcomes, failed_message_ids, idx>>
    /\ UNCHANGED <<fnVars, mode, prev, ccVars, relayVars, wsVars, queue, dlq, event, response, success,
                   delivered, started, responses>>

AsInvoke == mode = "appsync" /\ Invoke("as_invoke", "as_pull", "as_except")

AsPull == mode = "appsync" /\ Pull("as_pull", "as_send", "as_complete", "as_except")

AsAfterTokenSendBlocks(r) == IF r THEN "as_pull" ELSE "as_blocked"
\* where process_streaming_request goes after the publish of a token: the
\* result is assigned to success and not looked at
AsAfterTokenSend(r) == "as_pull"

AsSend ==
    /\ mode = "appsync" /\ pc = "as_send"
    /\ Publish(AsTokenFragment(session_id, text, token_count))
    /\ pc' = AsAfterTokenSend(sends'[Len(sends')].result)
    /\ UNCHANGED <<fnVars, mode, prev, ccVars, token_count, text, pulled, chunk, stream, deltas, error_message, log,
                   wsVars, queue, dlq, event, idx, failed_message_ids, response,
                   session_id, success, outcomes, started, responses>>

\* the completion notification and return True
AsComplete ==
    /\ mode = "appsync" /\ pc = "as_complete"
    /\ log' = Append(log, "stream_completed")
    /\ Publish(AsCompleteFragment(session_id, token_count))
    /\ success' = TRUE
    /\ pc' = "as_after"
    /\ UNCHANGED <<fnVars, mode, prev, ccVars, token_count, text, pulled, chunk, stream, deltas, error_message,
                   wsVars, queue, dlq, event, idx, failed_message_ids, response,
                   session_id, outcomes, started, responses>>

\* except Exception: the error notification and return False
AsExcept ==
    /\ mode = "appsync" /\ pc = "as_except"
    /\ log' = Append(log, "error_during_streaming")
    /\ Publish(AsErrorFragment(session_id, error_message))
    /\ success' = FALSE
    /\ pc' = "as_after"
    /\ UNCHANGED <<fnVars, mode, prev, ccVars, token_count, text, pulled, chunk, stream, deltas, error_message,
                   wsVars, queue, dlq, event, idx, failed_message_ids, response,
                   session_id, outcomes, started, responses>>

\* if not success: failed_message_ids.append(...)
AsAfterRun ==
    /\ mode = "appsync" /\ pc = "as_after"
    /\ FinishRecord(IF success THEN "true" ELSE "false")
    /\ Remember
    /\ LocalsGone
    /\ UNCHANGED <<fnVars, mode, ccVars, wsVars, queue, dlq, event, response, delivered, started,
                   responses>>

FailedIds(resp) ==
    { resp.batchItemFailures[i].itemIdentifier : i \in DOMAIN resp.batchItemFailures }

\* what the queue does with the records of a finished invocation
\* (report_batch_item_failures, max_receive_count): a record that is not
\* reported is deleted, a reported one becomes visible again until it has been
\* received MaxReceiveCount times and then moves to the dead-letter queue
RedeliveredWithoutCount(records, resp) ==
    { [records[i] EXCEPT !.receiveCount = 0] : i \in { j \in DOMAIN records :
          records[j].messageId \in FailedIds(resp) } }
RedeliveredOnceMore(records, resp) ==
    { records[i] : i \in { j \in DOMAIN records :
          /\ records[j].messageId \in FailedIds(resp)
          /\ records[j].receiveCount <= MaxReceiveCount } }
Redelivered(records, resp) ==
    { records[i] : i \in { j \in DOMAIN records :
          /\ records[j].messageId \in FailedIds(resp)
          /\ records[j].receiveCount < MaxReceiveCount } }
DeadLettered(records, resp) ==
    { records[i] : i \in { j \in DOMAIN records :
          /\ records[j].messageId \in FailedIds(resp)
          /\ records[j].receiveCount >= MaxReceiveCount } }

\* return {"batchItemFailures": failed_message_ids}
AsReturn ==
    /\ mode = "appsync" /\ pc = "record" /\ idx > Len(event)
    /\ response' = [batchItemFailures |-> failed_message_ids]
    /\ queue' = queue \cup Redelivered(event, response')
    /\ dlq' = dlq \cup DeadLettered(event, response')
    /\ event' = <<>>
    /\ pc' = "idle"
    /\ UNCHANGED <<fnVars, mode, prev, ccVars, relayVars, wsVars, idx, failed_message_ids, session_id,
                   success, outcomes, delivered, started, responses>>

\* ---------------------------------- one call of publish_token_to_appsync
NoPublish ==
    [pc |-> "none", args |-> AsFragment("", "", FALSE, 0),
     meets |-> [signing |-> "signed", transport |-> "answered", body |-> "data"],
     result |-> Returned(FALSE)]
\* the fragments process_streaming_request hands to the call
PublishArgs ==
    { AsTokenFragment(sid, t, n) : sid \in SessionIds, t \in Texts, n \in 1..MaxChunks }
    \cup { AsCompleteFragment(sid, n) : sid \in SessionIds, n \in 0..MaxChunks }
    \cup { AsErrorFragment(sid, e) : sid \in SessionIds, e \in BackendErrors \cup InvokeErrors }
PublishCalled ==
    /\ publishing.pc = "none"
    /\ \E f \in PublishArgs, m \in PublishMeets :
          publishing' = [pc |-> "called", args |-> f, meets |-> m,
                         result |-> Returned(FALSE)]
    /\ UNCHANGED <<mode, prev, pc, relayVars, wsVars, queueVars, ccVars, authorizing>>
PublishReturns ==
    /\ publishing.pc = "called"
    /\ publishing' = [publishing EXCEPT !.pc = "returned",
                                        !.result = PublishTokenToAppsync(publishing.meets)]
    /\ UNCHANGED <<mode, prev, pc, relayVars, wsVars, queueVars, ccVars, authorizing>>

\* ------------------------------------------------ WebSocket authorizer
MethodArns == {"arn:api/prod/GET/$connect", "arn:api/dev/GET/$connect"}
Subs == {"u1", "u2"}
\* a token as jwt sees it: its form, its RS256 signature against the pool's
\* keys, its exp and iss claims, and its sub claim
NoToken ==
    [form |-> "none", signature |-> "good", expired |-> FALSE, issuer |-> "pool",
     sub |-> "absent"]
Tokens ==
    { t \in [form : {"jwt", "malformed"}, signature : {"good", "bad"},
             expired : BOOLEAN, issuer : {"pool", "other"},
             sub : Subs \cup {"absent"}] :
        t.form = "malformed" => t = [NoToken EXCEPT !.form = "malformed"] }
\* event["queryStringParameters"]: the key is absent, null, an object without
\* token, an object with an empty token, or an object with a token
AuthorizerEvents ==
    { [methodArn |-> a, query |-> q, token |-> NoToken] :
         a \in MethodArns, q \in {"absent", "null", "no_token", "empty_token"} }
    \cup { [methodArn |-> a, query |-> "token", token |-> t] :
              a \in MethodArns, t \in Tokens }
\* USER_POOL_ID of the environment and the fetch of the pool's JWKS
AuthorizerEnvs == [user_pool_id : {"set", "unset"}, jwks : {"served", "raises"}]

generate_policy(principal_id, effect, resource) ==
    [principalId |-> principal_id,
     policyDocument |->
         [Version |-> "2012-10-17",
          Statement |-> <<[Action |-> "execute-api:Invoke", Effect |-> effect,
                           Resource |-> resource]>>]]
AuthReturns(p) == [raised |-> "", policy |-> p]
AuthRaises(e, ev) == [raised |-> e, policy |-> generate_policy("", "", ev.methodArn)]
\* the try block of the authorizer's lambda_handler
AuthorizerTry(ev, env) ==
    IF ev.query = "null" THEN AuthRaises("AttributeError", ev)
    ELSE IF ev.query # "token"
    THEN AuthReturns(generate_policy("user", "Deny", ev.methodArn))
    ELSE IF env.user_pool_id = "unset" THEN AuthRaises("KeyError", ev)
    ELSE IF ev.token.form = "malformed" THEN AuthRaises("InvalidTokenError", ev)
    ELSE IF env.jwks = "raises" THEN AuthRaises("PyJWKClientError", ev)
    ELSE IF ev.token.signature = "bad" THEN AuthRaises("InvalidTokenError", ev)
    ELSE IF ev.token.expired THEN AuthRaises("ExpiredSignatureError", ev)
    ELSE IF ev.token.issuer # "pool" THEN AuthRaises("InvalidTokenError", ev)
    ELSE IF ev.token.sub = "absent" THEN AuthRaises("KeyError", ev)
    ELSE AuthReturns(generate_policy(ev.token.sub, "Allow", ev.methodArn))
AuthorizerLetsExpiredIn(ev, env) ==
    IF AuthorizerTry(ev, env).raised = "ExpiredSignatureError"
    THEN generate_policy(ev.token.sub, "Allow", ev.methodArn)
    ELSE IF AuthorizerTry(ev, env).raised # ""
    THEN generate_policy("user", "Deny", ev.methodArn)
    ELSE AuthorizerTry(ev, env).policy
\* lambda_handler of the authorizer: the try block and its three except
\* clauses, each returning the Deny policy
AuthorizerHandler(ev, env) ==
    IF AuthorizerTry(ev, env).raised \in {"ExpiredSignatureError", "InvalidTokenError"}
    THEN generate_policy("user", "Deny", ev.methodArn)
    ELSE IF AuthorizerTry(ev, env).raised # ""
    THEN generate_policy("user", "Deny", ev.methodArn)
    ELSE AuthorizerTry(ev, env).policy

NoAuthorizing ==
    [pc |-> "none", event |-> [methodArn |-> "", query |-> "absent", token |-> NoToken],
     env |-> [user_pool_id |-> "set", jwks |-> "served"],
     policy |-> generate_policy("", "", "")]
AuthorizerInvoked ==
    /\ authorizing.pc = "none"
    /\ \E ev \in AuthorizerEvents, env \in AuthorizerEnvs :
          authorizing' = [NoAuthorizing EXCEPT !.pc = "invoked", !.event = ev, !.env = env]
    /\ UNCHANGED <<mode, prev, pc, relayVars, wsVars, queueVars, ccVars, publishing>>
AuthorizerReturns ==
    /\ authorizing.pc = "invoked"
    /\ authorizing' = [authorizing EXCEPT
                          !.pc = "returned",
                          !.policy = AuthorizerHandler(authorizing.event, authorizing.env)]
    /\ UNCHANGED <<mode, prev, pc, relayVars, wsVars, queueVars, ccVars, publishing>>

\* ------------------------------- concurrent invocations of the handler
\* The event source runs the processing handler in several execution
\* environments at once. Each invocation has its own locals; here a run of
\* process_streaming_request is taken at the grain of one loop iteration that
\* publishes a delta (the result of a publish is not looked at), and the
\* messages are those of start requests.
Invocations == {1, 2}
IdleRun == [token_count |-> 0, sends |-> <<>>, result |-> "none"]
\* session_id = message_body["sessionId"]
SessionOf(rec) == Subscript(JsonLoads(rec.body).value, "sessionId")

InvocationStarts(i) ==
    /\ mode = "appsync" /\ pc = "idle"
    /\ running[i] = <<>>
    /\ \E m \in queue :
          /\ running' = [running EXCEPT ![i] = <<[m EXCEPT !.receiveCount = @ + 1]>>]
          /\ queue' = Hidden(queue, {m})
    /\ run' = [run EXCEPT ![i] = [IdleRun EXCEPT !.result = "running"]]
    /\ UNCHANGED <<fnVars, mode, prev, pc, relayVars, wsVars, dlq, event, idx,
                   failed_message_ids, response, session_id, success, outcomes,
                   delivered, started, responses>>

CountedByAll(r, i) == [j \in DOMAIN r |-> [r[j] EXCEPT !.token_count = @ + 1]]
\* token_count += 1 on the local of the invocation
Counted(r, i) == [r EXCEPT ![i].token_count = NextTokenCount(@)]

\* one iteration of the loop over a non-empty delta: count and publish
RelayStep(i) ==
    /\ run[i].result = "running" /\ run[i].token_count < MaxChunks
    /\ \E t \in Texts :
          LET counted == Counted(run, i) IN
          run' = [counted EXCEPT ![i].sends =
                     Append(@, AsTokenFragment(SessionOf(running[i][1]), t,
                                               counted[i].token_count))]
    /\ UNCHANGED <<fnVars, mode, prev, pc, relayVars, wsVars, queueVars, running>>

\* the stream ends (completion, return True) or raises (error fragment,
\* return False)
RelayEnds(i) ==
    /\ run[i].result = "running"
    /\ LET sid == SessionOf(running[i][1]) IN
       \/ run' = [run EXCEPT ![i].sends =
                      Append(@, AsCompleteFragment(sid, run[i].token_count)),
                             ![i].result = "true"]
       \/ \E e \in BackendErrors \cup InvokeErrors :
             run' = [run EXCEPT ![i].sends = Append(@, AsErrorFragment(sid, e)),
                                ![i].result = "false"]
    /\ UNCHANGED <<fnVars, mode, prev, pc, relayVars, wsVars, queueVars, running>>

\* return {"batchItemFailures": failed_message_ids} and what the queue does
\* with the record
InvocationEnds(i) ==
    /\ run[i].result \in {"true", "false"}
    /\ LET resp == [batchItemFailures |->
                       IF MarksFailed(run[i].result)
                       THEN <<[itemIdentifier |-> running[i][1].messageId]>>
                       ELSE <<>>] IN
          /\ queue' = queue \cup Redelivered(running[i], resp)
          /\ dlq' = dlq \cup DeadLettered(running[i], resp)
    /\ running' = [running EXCEPT ![i] = <<>>]
    /\ run' = [run EXCEPT ![i] = IdleRun]
    /\ UNCHANGED <<fnVars, mode, prev, pc, relayVars, wsVars, event, idx,
                   failed_message_ids, response, session_id, success, outcomes,
                   delivered, started, responses>>

\* ------------------------------------------------------------------ Init
InitRelay ==
    /\ token_count = 0
    /\ text = ""
    /\ pulled = 0
    /\ chunk = NoChunk
    /\ stream = <<>>
    /\ deltas = <<>>
    /\ sends = <<>>
    /\ error_message = ""
    /\ log = <<>>

\* A behaviour serves start requests or finds a message of another sender on
\* the queue; a behaviour that compares runs follows one start request.
Init ==
    /\ mode \in {"ws", "appsync"}
    /\ prev \in {NoPrev(FALSE), NoPrev(TRUE)}
    /\ pc = IF mode = "ws" THEN "ws_start" ELSE "idle"
    /\ InitRelay
    /\ ws_body \in WsBodies
    /\ ws_ret = "pending"
    /\ queue \in {{}} \cup { {Message(0, b)} : b \in MalformedBodies }
    /\ mode = "ws" => queue = {}
    /\ mode = "appsync" => ws_body = NotJson
    /\ dlq = {}
    /\ event = <<>>
    /\ idx = 0
    /\ failed_message_ids = <<>>
    /\ response = [batchItemFailures |-> <<>>]
    /\ session_id = ""
    /\ success = FALSE
    /\ outcomes = <<>>
    /\ delivered = [s \in SessionIds |-> [last |-> 0, completes |-> 0]]
    /\ started = IF queue # {} THEN MaxStarts ELSE IF prev.on THEN MaxStarts - 1 ELSE 0
    /\ responses = <<>>
    /\ running = [i \in Invocations |-> <<>>]
    /\ run = [i \in Invocations |-> IdleRun]
    /\ publishing = NoPublish
    /\ authorizing = NoAuthorizing

Next ==
    \/ WsStart
    \/ WsInvoke
    \/ WsPull
    \/ WsSend
    \/ WsComplete
    \/ WsExcept
    \/ WsReturn
    \/ WsAgain
    \/ StartStream
    \/ AsReceive
    \/ AsRecord
    \/ AsInvoke
    \/ AsPull
    \/ AsSend
    \/ AsComplete
    \/ AsExcept
    \/ AsAfterRun
    \/ AsReturn

Spec == Init /\ [][Next]_vars

\* Concurrent invocations: the message of an earlier start request is on the
\* queue, further start requests are served, and the invocations run at once.
EarlierReply(sid) ==
    [sessionId |-> sid, status |-> "streaming_started",
     message |-> "AI streaming session initiated. Subscribe to receive real-time tokens.",
     error |-> ""]
\* everything but the queue and the concurrent invocations, at rest
AtRest ==
    /\ mode = "appsync" /\ prev = NoPrev(FALSE) /\ pc = "idle"
    /\ InitRelay
    /\ ws_body = NotJson /\ ws_ret = "pending"
    /\ dlq = {} /\ event = <<>> /\ idx = 0 /\ failed_message_ids = <<>>
    /\ response = [batchItemFailures |-> <<>>]
    /\ session_id = "" /\ success = FALSE /\ outcomes = <<>>
    /\ delivered = [s \in SessionIds |-> [last |-> 0, completes |-> 0]]
    /\ started = 0
    /\ publishing = NoPublish
    /\ authorizing = NoAuthorizing
InitConcurrent ==
    /\ AtRest
    /\ \E p \in Prompts :
          LET sid == NewSessionId({}) IN
          /\ queue = {Message(0, StartBody(p, sid))}
          /\ responses = <<EarlierReply(sid)>>
    /\ running = [i \in Invocations |-> <<>>]
    /\ run = [i \in Invocations |-> IdleRun]

NextConcurrent ==
    \/ StartStream
    \/ \E i \in Invocations : InvocationStarts(i)
    \/ \E i \in Invocations : RelayStep(i)
    \/ \E i \in Invocations : RelayEnds(i)
    \/ \E i \in Invocations : InvocationEnds(i)

SpecConcurrent == InitConcurrent /\ [][NextConcurrent]_vars

\* Long streams: one invocation is in the middle of a run that has published
\* n deltas, for every n the request's max_tokens allows; the run ends and the
\* invocation returns.
InitLongStream ==
    /\ AtRest
    /\ queue = {}
    /\ \E p \in Prompts, n \in 0..MaxTokens :
          LET sid == NewSessionId({})
              t == CHOOSE x \in Texts : TRUE IN
          /\ responses = <<EarlierReply(sid)>>
          /\ running = [i \in Invocations |->
                           IF i = 1
                           THEN <<[Message(0, StartBody(p, sid)) EXCEPT !.receiveCount = 1]>>
                           ELSE <<>>]
          /\ run = [i \in Invocations |->
                       IF i = 1
                       THEN [token_count |-> n,
                             sends |-> [k \in 1..n |-> AsTokenFragment(sid, t, k)],
                             result |-> "running"]
                       ELSE IdleRun]

NextLongStream ==
    \/ \E i \in Invocations : RelayEnds(i)
    \/ \E i \in Invocations : InvocationEnds(i)

SpecLongStream == InitLongStream /\ [][NextLongStream]_vars

\* Single calls of publish_token_to_appsync, over the fragments it is handed and
\* everything the call can meet.
InitCall ==
    /\ AtRest
    /\ queue = {} /\ responses = <<>>
    /\ running = [i \in Invocations |-> <<>>]
    /\ run = [i \in Invocations |-> IdleRun]
NextPublish ==
    \/ PublishCalled
    \/ PublishReturns
SpecPublish == InitCall /\ [][NextPublish]_vars

\* Single invocations of the WebSocket authorizer, over the $connect events and
\* everything the verification can meet.
NextAuthorizer ==
    \/ AuthorizerInvoked
    \/ AuthorizerReturns
SpecAuthorizer == InitCall /\ [][NextAuthorizer]_vars

\* A batch: the processing handler is invoked with an event of BatchRecords
\* records, each the message of a start request or a message of another
\* sender, and runs to its return.
BatchBodies ==
    { StartBody(p, sid) : p \in Prompts, sid \in {"s1", "s2"} } \cup MalformedBodies
InitBatch ==
    /\ mode = "appsync" /\ prev = NoPrev(FALSE) /\ pc = "record"
    /\ InitRelay
    /\ ws_body = NotJson /\ ws_ret = "pending"
    /\ queue = {} /\ dlq = {}
    /\ event \in { e \in [1..BatchRecords ->
                              { [Message(i, b) EXCEPT !.receiveCount = 1] :
                                   i \in 1..BatchRecords, b \in BatchBodies }] :
                      \A i \in 1..BatchRecords : e[i].messageId = i }
    /\ idx = 1 /\ failed_message_ids = <<>>
    /\ response = [batchItemFailures |-> <<>>]
    /\ session_id = "" /\ success = FALSE /\ outcomes = <<>>
    /\ delivered = [s \in SessionIds |-> [last |-> 0, completes |-> 0]]
    /\ started = 0 /\ responses = <<>>
    /\ running = [i \in Invocations |-> <<>>]
    /\ run = [i \in Invocations |-> IdleRun]
    /\ publishing = NoPublish
    /\ authorizing = NoAuthorizing
NextBatch ==
    \/ AsRecord
    \/ AsInvoke
    \/ AsPull
    \/ AsSend
    \/ AsComplete
    \/ AsExcept
    \/ AsAfterRun
    \/ AsReturn
SpecBatch == InitBatch /\ [][NextBatch]_vars

\* Handler executions to their end: a WebSocket stream request or a batch
\* invocation of the processing handler is under way, and the Lambda runtime
\* keeps executing the handler's next step.
HandlerBodies == {StartBody(p, NewSessionId({})) : p \in Prompts} \cup {NotJson}
InitHandler ==
    \/ /\ Init /\ mode = "ws" /\ prev = NoPrev(FALSE)
    \/ /\ InitBatch
       /\ \A i \in DOMAIN event : event[i].body \in HandlerBodies
WsStep ==
    \/ WsStart
    \/ WsInvoke
    \/ WsPull
    \/ WsSend
    \/ WsComplete
    \/ WsExcept
    \/ WsReturn
NextHandler ==
    \/ WsStep
    \/ NextBatch
SpecHandler == InitHandler /\ [][NextHandler]_vars /\ WF_vars(NextHandler)

\* Delivery: a successful start request has put its message on the queue, the
\* event source keeps delivering the visible messages to the processing
\* handler, and the Lambda runtime keeps executing the handler's next step.
InitDelivery == InitConcurrent
NextDelivery ==
    \/ AsReceive
    \/ NextBatch
SpecDelivery ==
    InitDelivery /\ [][NextDelivery]_vars /\ WF_vars(AsReceive) /\ WF_vars(NextBatch)

\* ------------------------------------------------------- reading a run
\* the relay run of this behaviour has ended
WsRunEnded == mode = "ws" /\ pc = "done" /\ ws_ret = "200"
AsRunEnded == mode = "appsync" /\ pc = "as_after"
RunEnded == WsRunEnded \/ AsRunEnded
\* what a sink call carried: the WebSocket messages are told apart by their type,
\* the AppSync fragments by is_complete and the token
IsTokenSend(c) == IF mode = "ws" THEN c.Data.type = "token" ELSE ~c.args.is_complete
IsCompletionSend(c) ==
    IF mode = "ws" THEN c.Data.type = "complete"
                   ELSE c.args.is_complete /\ c.args.token = ""
IsErrorSend(c) ==
    IF mode = "ws" THEN c.Data.type = "error"
                   ELSE c.args.is_complete /\ c.args.token # ""
IsTerminalSend(c) == IsCompletionSend(c) \/ IsErrorSend(c)
\* how the sink answered
Accepted(c) == IF mode = "ws" THEN c.result = "ok" ELSE c.result
SinkGone(c) == mode = "ws" /\ c.result = "gone"
SinkOtherError(c) == IF mode = "ws" THEN c.result = "error" ELSE ~c.result
AllAccepted == \A i \in DOMAIN sends : Accepted(sends[i])
\* the backend raised (at the invocation or in the stream)
BackendRaised == error_message \in BackendErrors \cup InvokeErrors
\* the first Len(deltas) sink calls carry the deltas with sequence 1, 2, ...
TokensInOrder(n) ==
    /\ n <= Len(sends) /\ n <= Len(deltas)
    /\ \A k \in 1..n :
          IF mode = "ws"
          THEN /\ sends[k].ConnectionId = connection_id
               /\ sends[k].Data = [type |-> "token", token |-> deltas[k], sequence |-> k]
          ELSE sends[k].args = [session_id |-> session_id, token |-> deltas[k],
                                is_complete |-> FALSE, sequence |-> k]
\* the positions of the sink calls the sink accepted
AcceptedAt == { i \in DOMAIN sends : Accepted(sends[i]) }

\* ------------------------------------------------------------------ C1
\* C1 (as amended): when the backend stream ends without failure after N
\* non-empty deltas and the sink accepts every send, the run has sent N token
\* fragments with sequence 1..N in generation order and then one completion:
\* in the AppSync variant a fragment with token "", is_complete and sequence
\* N+1, and the run returns True; in the WebSocket variant a "complete" message
\* with total_tokens = N and no sequence field, and the handler returns 200.
C1_TranscriptOfCleanRun ==
    (RunEnded /\ error_message = "" /\ AllAccepted) =>
        LET N == Len(deltas) IN
        /\ token_count = N
        /\ Len(sends) = N + 1
        /\ TokensInOrder(N)
        /\ IF mode = "ws"
           THEN /\ sends[N + 1].Data.type = "complete"
                /\ sends[N + 1].Data.total_tokens = N
                /\ "sequence" \notin DOMAIN sends[N + 1].Data
                /\ ws_ret = "200"
           ELSE /\ sends[N + 1].args = [session_id |-> session_id, token |-> "",
                                        is_complete |-> TRUE, sequence |-> N + 1]
                /\ success = TRUE
\* C1 as stated: the completion fragment carries sequence N+1 in both variants
C1_CompletionCarriesSequence ==
    (RunEnded /\ error_message = "" /\ AllAccepted) =>
        LET N == Len(deltas) IN
        /\ Len(sends) = N + 1
        /\ TokensInOrder(N)
        /\ IF mode = "ws"
           THEN /\ "sequence" \in DOMAIN sends[N + 1].Data
                /\ sends[N + 1].Data.sequence = N + 1
           ELSE sends[N + 1].args.sequence = N + 1
\* a WebSocket run of two different deltas, all accepted
C1_Witness ==
    /\ WsRunEnded /\ error_message = "" /\ AllAccepted
    /\ Len(deltas) = 2 /\ deltas[1] # deltas[2]

\* ------------------------------------------------------------------ C2
\* C2: over all runs for one session, the fragments the subscribers are given
\* come in strictly increasing sequence order, at most one of them is complete
\* and none follows the complete one. Stated on each accepted publish: its
\* sequence exceeds the last accepted one of the session and no complete
\* fragment was accepted before it.
C2_SessionOrderAcrossRuns ==
    [][ (mode = "appsync" /\ Len(sends') = Len(sends) + 1 /\ sends'[Len(sends')].result)
        => LET f == sends'[Len(sends')].args IN
           /\ f.sequence > delivered[f.session_id].last
           /\ delivered[f.session_id].completes = 0 ]_vars

\* ------------------------------------------------------------------ C3
\* C3: when the sink reports gone on the send of fragment k, fragments 1..k
\* were attempted, nothing is sent after it and the run ends as SinkGone(k).
C3_NoSendAfterGone ==
    \A i \in DOMAIN sends :
        (IsTokenSend(sends[i]) /\ SinkGone(sends[i])) =>
            /\ TokensInOrder(i)
            /\ i = Len(sends)
            /\ token_count = i

\* ------------------------------------------------------------------ C4
\* C4: when the sink reports a non-gone error on the send of fragment k, the
\* run sends nothing after it and ends as failed.
C4_NoSendAfterSinkError ==
    \A i \in DOMAIN sends :
        (IsTokenSend(sends[i]) /\ SinkOtherError(sends[i])) =>
            /\ i = Len(sends)
            /\ AsRunEnded => ~success

C6_OneTerminalSignal ==
    /\ Cardinality({ i \in DOMAIN sends : IsTerminalSend(sends[i]) }) <= 1
    /\ RunEnded => \E i \in DOMAIN sends : IsTerminalSend(sends[i])

\* ------------------------------------------------------------------ C7
\* C7: in a run whose sink never reported gone and accepted the terminal
\* fragment, what the sink accepted is every token in order and then the
\* completion, or the first j tokens without a gap and then the error
\* fragment; no completion is accepted after a token that was not.
C7_AcceptedTranscript ==
    (RunEnded /\ (\A i \in DOMAIN sends : ~SinkGone(sends[i]))
              /\ sends # <<>> /\ Accepted(sends[Len(sends)])) =>
        LET last == sends[Len(sends)]
            accTokens == { i \in AcceptedAt : IsTokenSend(sends[i]) }
        IN
        /\ IsTerminalSend(last)
        /\ AcceptedAt \ {Len(sends)} = accTokens
        /\ \E j \in 0..Len(deltas) :
              /\ accTokens = 1..j
              /\ TokensInOrder(j)
              /\ IsCompletionSend(last) => j = Len(deltas)

\* ------------------------------------------------------------------ C8
\* C8: once the processing handler has returned, a record is listed in
\* batchItemFailures exactly when its run returned False or raised, and a
\* record whose run returned True is listed nowhere and is off the queue.
C8_FailuresAreTheFailedRuns ==
    (mode = "appsync" /\ pc = "idle") =>
        \A i \in DOMAIN outcomes :
            /\ (outcomes[i].messageId \in FailedIds(response))
                  <=> (outcomes[i].outcome \in {"false", "raised"})
            /\ outcomes[i].outcome = "true" =>
                  \A m \in queue \cup dlq : m.messageId # outcomes[i].messageId
\* an invocation whose run returned False has returned and the record is back
C8_Witness ==
    /\ mode = "appsync" /\ pc = "idle"
    /\ \E i \in DOMAIN outcomes :
          /\ outcomes[i].outcome = "false"
          /\ outcomes[i].messageId \in FailedIds(response)
          /\ \E m \in queue : m.messageId = outcomes[i].messageId

\* ------------------------------------------------------------------ C9
\* C9: when the publish of a token fragment returns False, the run counts as
\* failed (so that the record is reported in batchItemFailures).
C9_FailedPublishFailsTheRun ==
    (AsRunEnded /\ \E i \in DOMAIN sends :
                       IsTokenSend(sends[i]) /\ SinkOtherError(sends[i]))
        => ~success /\ MarksFailed(IF success THEN "true" ELSE "false")

\* ------------------------------------------------------------------ C10
\* a trigger payload that is not JSON, or not an object with prompt and sessionId
Malformed(body) ==
    \/ ~body.wellformed
    \/ body.value.t # "object"
    \/ \A p \in body.value.fields : p[1] # "prompt"
    \/ \A p \in body.value.fields : p[1] # "sessionId"
\* C10: when the handler is about to return, no record with a malformed
\* payload is in failed_message_ids.
C10_MalformedNeverMarkedFailed ==
    (mode = "appsync" /\ pc = "record" /\ idx > Len(event)) =>
        \A i \in DOMAIN event :
            Malformed(event[i].body) =>
                \A j \in DOMAIN failed_message_ids :
                    failed_message_ids[j].itemIdentifier # event[i].messageId

\* ------------------------------------------------------------------ C11
\* the completion send of this run failed after every token send was accepted
CompletionFailedAlone(i) ==
    /\ IsCompletionSend(sends[i]) /\ ~Accepted(sends[i])
    /\ \A j \in 1..(i - 1) : IsTokenSend(sends[j]) /\ Accepted(sends[j])
\* C11: when every token fragment was sent and only the send of the completion
\* fragment fails (the sink is gone, or any other error), the run stays
\* completed: the failure path is not taken, no error fragment is sent, and in
\* the queue variant the run returns True, so the record is not reported failed.
C11_CompletionFailureKeepsCompleted ==
    \A i \in DOMAIN sends :
        CompletionFailedAlone(i) =>
            /\ pc \notin {"ws_except", "as_except"}
            /\ \A j \in DOMAIN sends : ~IsErrorSend(sends[j])
            /\ \A j \in DOMAIN log :
                  log[j] \notin {"streaming_error", "error_during_streaming"}
            /\ AsRunEnded => success

\* ------------------------------------------------------------------ C12
\* a chunk that carries a non-empty text delta
NonEmptyDelta(c) == c.hasChunk /\ c.type = "content_block_delta" /\ c.text # ""
\* the sequence number a token send carried
SequenceOf(c) == IF mode = "ws" THEN c.Data.sequence ELSE c.args.sequence
TokenSends(ss) == SelectSeq(ss, IsTokenSend)
\* C12: a chunk with empty text, a chunk of another type and an event without a
\* chunk cause no send and use up no sequence number; a non-empty text delta
\* raises the count by one and goes to its send, and every token send carries
\* the number of non-empty deltas seen so far, which is one more than the
\* number of token sends before it: the sequence numbers sent are 1..M.
C12_SkippedChunksUseNoSequence ==
    [][ /\ pulled' = pulled + 1 =>
              IF NonEmptyDelta(chunk')
              THEN /\ token_count' = token_count + 1
                   /\ text' = chunk'.text
                   /\ pc' \in {"ws_send", "as_send"}
                   /\ sends' = sends
              ELSE /\ token_count' = token_count
                   /\ pc' = pc
                   /\ sends' = sends
        /\ (Len(sends') = Len(sends) + 1 /\ IsTokenSend(sends'[Len(sends')])) =>
              /\ SequenceOf(sends'[Len(sends')]) = Len(TokenSends(sends)) + 1
              /\ SequenceOf(sends'[Len(sends')]) = token_count
              /\ pulled' = pulled
      ]_vars
\* a delta was sent with sequence 1 and the empty delta after it was skipped
C12_Witness ==
    /\ pulled = 2 /\ chunk = [hasChunk |-> TRUE, type |-> "content_block_delta", text |-> ""]
    /\ Len(sends) = 1 /\ IsTokenSend(sends[1]) /\ SequenceOf(sends[1]) = 1
    /\ token_count = 1 /\ pc \in {"ws_pull", "as_pull"}

\* ------------------------------------------------------------------ C13
\* a sink call of the run met a transport failure
SomeSendFailed(ss) == \E i \in DOMAIN ss : ~Accepted(ss[i])
\* C13: a transport failure of a send (gone or any other, on a token, the
\* completion or the error fragment) never leaves the handler as an unhandled
\* exception: the WebSocket handler goes on to return statusCode 200, and
\* process_streaming_request returns a boolean, which the record loop turns
\* into the outcome of the record.
C13_SendFailureNeverUnhandled ==
    [][ /\ (mode = "ws" /\ SomeSendFailed(sends')) =>
              /\ ws_ret' \in {"pending", "200"}
              /\ pc' = "done" => ws_ret' = "200"
        /\ (pc = "as_after" /\ pc' # pc /\ SomeSendFailed(sends)) =>
              /\ success \in BOOLEAN
              /\ outcomes' = Append(outcomes,
                     [messageId |-> event[idx].messageId,
                      outcome |-> IF success THEN "true" ELSE "false"])
      ]_vars
\* the WebSocket handler returned 200 after the send of a token and the send
\* of the error message had both failed
C13_Witness ==
    /\ mode = "ws" /\ pc = "done" /\ ws_ret = "200"
    /\ Len(sends) = 2
    /\ sends[1].Data.type = "token" /\ sends[1].result = "error"
    /\ sends[2].Data.type = "error" /\ sends[2].result = "gone"

\* ------------------------------------------------------------------ C14
\* the run that ended was given what the run before it was given: the same
\* backend events and, call by call, the same sink answers
SameInputs ==
    /\ prev.valid
    /\ stream = prev.stream
    /\ \A i \in DOMAIN sends \cap DOMAIN prev.sends :
          sends[i].result = prev.sends[i].result
\* C14: two runs of the relay that are given the same backend stream and the
\* same sink answers make the same sink calls (the same fragments with the
\* same sequence numbers and texts, the same complete flags, in the same
\* order) and end with the same outcome.
C14_SameInputsSameFragments ==
    (SameInputs /\ (AsRunEnded \/ (mode = "ws" /\ pc = "done"))) =>
        /\ sends = prev.sends
        /\ log = prev.log
        /\ success = prev.success
        /\ mode = "ws" => ws_ret = "200"
\* the second delivery of a message ended as the first: one delta published,
\* then the stream raised and the error fragment was published
C14_Witness ==
    /\ AsRunEnded /\ SameInputs /\ event[idx].receiveCount = 2
    /\ Len(deltas) = 1 /\ Len(sends) = 2 /\ error_message \in BackendErrors
    /\ ~success

\* ------------------------------------------------------------------ C15
\* the run took the failure path, or stopped because the sink was gone
TookFailurePath == \E i \in DOMAIN sends : IsErrorSend(sends[i])
StoppedOnGone == \E i \in DOMAIN sends : IsTokenSend(sends[i]) /\ SinkGone(sends[i])
Replied == Len(responses') = Len(responses) + 1
Reply == responses'[Len(responses')]
OnTheWire(c) == IF mode = "ws" THEN c.Data ELSE PublishVariables(c.args)
Sent == Len(sends') = Len(sends) + 1
Wire == OnTheWire(sends'[Len(sends')])
\* C17 (as stated): in every variant the completion fragment on the wire
\* carries token "" and isComplete true, and every token fragment carries
\* isComplete false and a non-empty token.
C17_WireFormatUniform ==
    [][ Sent =>
          /\ pc \in {"ws_send", "as_send"} =>
                /\ {"token", "isComplete"} \subseteq DOMAIN Wire
                /\ Wire.token = text /\ text # "" /\ Wire.isComplete = FALSE
          /\ pc \in {"ws_complete", "as_complete"} =>
                /\ {"token", "isComplete"} \subseteq DOMAIN Wire
                /\ Wire.token = "" /\ Wire.isComplete = TRUE
      ]_vars
\* C17 (as amended): in the AppSync variant the completion fragment on the
\* wire carries token "" and isComplete true and every token fragment carries
\* isComplete false and a non-empty token; in the WebSocket variant the
\* messages have no isComplete: a token message is {type "token", token,
\* sequence} with a non-empty token, the completion is {type "complete",
\* total_tokens, timestamp} without a token.
C17_WireFormatPerVariant ==
    [][ Sent =>
          /\ pc = "as_send" =>
                /\ DOMAIN Wire = {"sessionId", "token", "isComplete"}
                /\ Wire.token = text /\ text # "" /\ Wire.isComplete = FALSE
          /\ pc = "as_complete" =>
                /\ DOMAIN Wire = {"sessionId", "token", "isComplete"}
                /\ Wire.token = "" /\ Wire.isComplete = TRUE
          /\ pc = "ws_send" =>
                /\ DOMAIN Wire = {"type", "token", "sequence"}
                /\ Wire.type = "token" /\ Wire.token = text /\ text # ""
          /\ pc = "ws_complete" =>
                /\ DOMAIN Wire = {"type", "total_tokens", "timestamp"}
                /\ Wire.type = "complete"
      ]_vars
\* the WebSocket completion message went out after a token message
C17_Witness ==
    /\ mode = "ws" /\ Len(sends) = 2
    /\ sends[1].Data.type = "token" /\ sends[2].Data.type = "complete"
    /\ sends[2].result = "ok"

\* ------------------------------------------------------------------ C18
\* C18: the relay never pulls ahead of the sink: a chunk is pulled only when
\* the send of every non-empty delta pulled before has returned, so at every
\* point at most one delta has been pulled beyond those whose send returned.
C18_NoPrefetch ==
    [][ /\ Len(deltas') <= Len(TokenSends(sends')) + 1
        /\ token_count' <= Len(TokenSends(sends')) + 1
        /\ pulled' = pulled + 1 =>
              /\ Len(TokenSends(sends)) = Len(deltas)
              /\ Len(TokenSends(sends)) = token_count
      ]_vars
\* the second delta was pulled after the send of the first had returned, and
\* is about to be sent
C18_Witness ==
    /\ pulled = 2 /\ Len(deltas) = 2 /\ Len(TokenSends(sends)) = 1
    /\ Len(sends) = 1 /\ pc \in {"ws_send", "as_send"}

\* ------------------------------------------------------------------ C19
\* a run of process_streaming_request for a record the queue delivered before
RedeliveredRun ==
    /\ mode = "appsync"
    /\ pc \in {"as_invoke", "as_pull", "as_send", "as_complete", "as_except", "as_after"}
    /\ event[idx].receiveCount > 1
\* C19: a run triggered by a redelivery carries nothing over from the earlier
\* runs: it starts with an empty transcript and the count at 0, works for the
\* sessionId of the message, and sends the deltas of its own stream from the
\* first one on, numbered from 1.
C19_RedeliveryStartsAfresh ==
    RedeliveredRun =>
        /\ session_id = Subscript(JsonLoads(event[idx].body).value, "sessionId")
        /\ pc = "as_invoke" =>
              /\ token_count = 0 /\ pulled = 0 /\ deltas = <<>> /\ sends = <<>>
              /\ error_message = ""
        /\ token_count = Len(deltas)
        /\ \A k \in DOMAIN sends :
              ~sends[k].args.is_complete =>
                 /\ k <= Len(deltas)
                 /\ sends[k].args = [session_id |-> session_id, token |-> deltas[k],
                                     is_complete |-> FALSE, sequence |-> k]
\* the second delivery: the earlier run had published its error fragment to
\* the session, and this run has published its first delta with sequence 1
C19_Witness ==
    /\ RedeliveredRun /\ pc = "as_pull" /\ event[idx].receiveCount = 2
    /\ Len(sends) = 1 /\ sends[1].result /\ sends[1].args.sequence = 1
    /\ delivered[session_id].completes = 1 /\ delivered[session_id].last = 1

\* ------------------------------------------------------------------ C20
\* the handler's return reports the record as failed
ReportedFailed(rec, resp) ==
    \E j \in DOMAIN resp.batchItemFailures :
        resp.batchItemFailures[j].itemIdentifier = rec.messageId
\* C20: a message that is reported failed on every delivery is delivered to
\* the handler at most 3 times; reported failed on the third delivery it is
\* moved to the dead-letter queue (before that it goes back to the queue), and
\* a message in the dead-letter queue stays there and is not delivered again.
C20_ThreeDeliveriesThenDeadLetter ==
    [][ /\ \A i \in DOMAIN event' : event'[i].receiveCount <= 3
        /\ dlq \subseteq dlq'
        /\ \A m \in dlq' :
              /\ m.receiveCount = 3
              /\ \A q \in queue' : q.messageId # m.messageId
              /\ \A i \in DOMAIN event' : event'[i].messageId # m.messageId
        /\ (pc = "record" /\ pc' = "idle") =>
              \A i \in DOMAIN event :
                 ReportedFailed(event[i], response') =>
                    IF event[i].receiveCount < 3
                    THEN event[i] \in queue' /\ event[i] \notin dlq'
                    ELSE event[i] \in dlq' /\ event[i] \notin queue'
      ]_vars
\* a start request's message failed on each of its three deliveries and is in
\* the dead-letter queue; the queue is empty
C20_Witness ==
    /\ pc = "idle" /\ queue = {}
    /\ \E m \in dlq :
          /\ m.receiveCount = 3
          /\ HasKey(JsonLoads(m.body).value, "sessionId")

\* ------------------------------------------------------------------ C21
\* the records that invocations are processing, and every message there is
Active == { i \in Invocations : running[i] # <<>> }
InFlight == { running[i][1] : i \in Active }
\* C21: in the queue-triggered variant no two runs for the same sessionId are
\* active at the same time: the record of a running invocation is not visible
\* on the queue (nor in the dead-letter queue), so no other invocation holds
\* the same message, and different messages carry different sessionIds.
C21_OneRunPerSession ==
    /\ \A i, j \in Active :
          i # j => /\ running[i][1].messageId # running[j][1].messageId
                   /\ SessionOf(running[i][1]) # SessionOf(running[j][1])
    /\ \A i \in Active : \A m \in queue \cup dlq :
          m.messageId # running[i][1].messageId
    /\ \A m, n \in queue \cup dlq \cup InFlight :
          SessionOf(m) = SessionOf(n) => m.messageId = n.messageId
\* two invocations are publishing at once, for two sessions, one of them on
\* the second delivery of its message
C21_Witness ==
    /\ Active = Invocations
    /\ running[1][1].receiveCount = 2 /\ running[2][1].receiveCount = 1
    /\ \A i \in Invocations : run[i].result = "running" /\ run[i].token_count = 1

\* ------------------------------------------------------------------ C22
\* what a run for session sid has published after n deltas when it runs alone:
\* the token fragments numbered 1..n for that session
AloneTokens(r, sid) ==
    /\ Len(r.sends) >= r.token_count
    /\ \A k \in 1..r.token_count :
          /\ r.sends[k].session_id = sid
          /\ r.sends[k].sequence = k
          /\ ~r.sends[k].is_complete /\ r.sends[k].token \in Texts
    /\ \A k \in (r.token_count + 1)..Len(r.sends) :
          /\ k = Len(r.sends) /\ r.result \in {"true", "false"}
          /\ r.sends[k].session_id = sid /\ r.sends[k].is_complete
          /\ r.sends[k].sequence = IF r.result = "true" THEN r.token_count + 1 ELSE 999
IsErrorFragment(f) == f.is_complete /\ f.token # ""
\* C23: the sequence given to an error fragment, 999, is never the sequence of
\* a token fragment or of a completion fragment of any run, however many
\* fragments the stream has.
C23_ErrorSequenceReserved ==
    \A i \in Invocations : \A k \in DOMAIN run[i].sends :
        ~IsErrorFragment(run[i].sends[k]) => run[i].sends[k].sequence # 999

\* C24: a call of publish_token_to_appsync that has returned did not raise and
\* gave True or False, never a third result such as gone: False when signing,
\* the transport or the reading of the response raised and when the response
\* carries GraphQL errors, True when the response carries none.
PublishMetException ==
    \/ publishing.meets.signing = "raises"
    \/ publishing.meets.transport = "raises"
    \/ publishing.meets.body \in {"not_json", "null"}
C24_PublishGivesTrueOrFalse ==
    publishing.pc = "returned" =>
        /\ ~publishing.result.raised
        /\ publishing.result.value \in BOOLEAN
        /\ (PublishMetException \/ publishing.meets.body = "errors")
              => publishing.result.value = FALSE
        /\ (~PublishMetException /\ publishing.meets.body = "data")
              => publishing.result.value = TRUE
C24_Witness ==
    /\ publishing.pc = "returned"
    /\ publishing.meets.transport = "raises"
    /\ publishing.args.is_complete
    /\ publishing.result = Returned(FALSE)

\* C30: an authorizer invocation that has returned gives an Allow policy only
\* when a token was supplied and its verification succeeded, and then the
\* principalId is the token's sub claim; without a token, with an expired or
\* invalid token, and when anything else raises during the verification, it
\* gives a Deny policy; the policy always names the requested methodArn.
EffectOf(p) == p.policyDocument.Statement[1].Effect
ResourceOf(p) == p.policyDocument.Statement[1].Resource
TokenVerified ==
    /\ authorizing.event.query = "token"
    /\ authorizing.event.token.form = "jwt"
    /\ authorizing.event.token.signature = "good"
    /\ ~authorizing.event.token.expired
    /\ authorizing.event.token.issuer = "pool"
VerificationRaised ==
    \/ authorizing.event.query = "null"
    \/ authorizing.env.user_pool_id = "unset"
    \/ authorizing.env.jwks = "raises"
    \/ authorizing.event.token.sub = "absent"
C30_AllowOnlyForVerifiedToken ==
    authorizing.pc = "returned" =>
        /\ EffectOf(authorizing.policy) \in {"Allow", "Deny"}
        /\ ResourceOf(authorizing.policy) = authorizing.event.methodArn
        /\ EffectOf(authorizing.policy) = "Allow"
              => /\ TokenVerified
                 /\ authorizing.policy.principalId = authorizing.event.token.sub
                 /\ authorizing.policy.principalId \in Subs
        /\ (~TokenVerified \/ VerificationRaised)
              => EffectOf(authorizing.policy) = "Deny"
C30_Witness ==
    /\ authorizing.pc = "returned"
    /\ EffectOf(authorizing.policy) = "Allow"
    /\ authorizing.policy.principalId = "u2"

\* C25: a start request that answers with a status other than error has put
\* exactly one message on the queue, which carries the sessionId of the answer
\* and the prompt of the request; a start request that answers with status
\* error has put no message on the queue.
PromptOf(rec) == Subscript(JsonLoads(rec.body).value, "prompt")
C25_StartEnqueuesOnce ==
    [][Len(responses') = Len(responses) + 1 =>
          LET answer == responses'[Len(responses')]
              put == queue' \ queue IN
          /\ queue \subseteq queue'
          /\ answer.status # "error"
                => /\ Cardinality(put) = 1
                   /\ \A m \in put : /\ SessionOf(m) = answer.sessionId
                                     /\ PromptOf(m) \in Prompts
                                     /\ m.receiveCount = 0
          /\ answer.status = "error" => put = {}]_vars
C25_Witness ==
    /\ started = MaxStarts
    /\ Len(responses) = 1
    /\ responses[1].status = "streaming_started"
    /\ \E m \in queue : /\ SessionOf(m) = responses[1].sessionId
                        /\ PromptOf(m) \in Prompts

\* C29: a WebSocket stream request whose body is not valid JSON is answered
\* with statusCode 400, and its handler neither invokes the generation backend
\* nor sends a message to the connection.
InvalidJsonRequest == mode = "ws" /\ ~ws_body.wellformed
C29_InvalidJsonAnswered400 ==
    (InvalidJsonRequest /\ pc # "ws_start") =>
        /\ pc = "done"
        /\ ws_ret = "400"
        /\ sends = <<>>
        /\ pulled = 0 /\ stream = <<>> /\ chunk = NoChunk /\ deltas = <<>>
C29_Witness ==
    /\ InvalidJsonRequest
    /\ pc = "done" /\ ws_ret = "400" /\ log = <<"invalid_json">>
    /\ sends = <<>>

\* C28: in one invocation of the processing handler every record of the event
\* is processed exactly once, in event order, whatever happened to the records
\* before it (a failed run, invalid JSON, an exception): a run starts from fresh
\* locals, and failed_message_ids holds only messageIds of the event's records
\* whose own processing failed, each at most once.
EventIds == { event[i].messageId : i \in DOMAIN event }
FreshLocals ==
    /\ token_count = 0 /\ text = "" /\ pulled = 0 /\ deltas = <<>>
    /\ sends = <<>> /\ error_message = "" /\ log = <<>>
C28_RecordsIndependent ==
    pc # "idle" =>
        /\ Len(outcomes) = idx - 1
        /\ idx <= Len(event) + 1
        /\ \A i \in DOMAIN outcomes : outcomes[i].messageId = event[i].messageId
        /\ pc = "as_invoke" => FreshLocals
        /\ \A k \in DOMAIN failed_message_ids :
              /\ failed_message_ids[k].itemIdentifier \in EventIds
              /\ \E i \in DOMAIN outcomes :
                    /\ outcomes[i].messageId = failed_message_ids[k].itemIdentifier
                    /\ MarksFailed(outcomes[i].outcome)
        /\ \A k, l \in DOMAIN failed_message_ids :
              failed_message_ids[k] = failed_message_ids[l] => k = l
        /\ \A i \in DOMAIN outcomes :
              ~MarksFailed(outcomes[i].outcome) =>
                  \A k \in DOMAIN failed_message_ids :
                      failed_message_ids[k].itemIdentifier # outcomes[i].messageId
C28_Witness ==
    /\ pc = "record" /\ Len(event) = BatchRecords /\ idx = Len(event) + 1
    /\ outcomes[1].outcome = "false"
    /\ outcomes[Len(event)].outcome = "true"
    /\ failed_message_ids = <<[itemIdentifier |-> event[1].messageId]>>

\* C26: every relay run terminates, whatever the backend stream (of at most
\* MaxChunks chunks) holds and whatever the sink answers: a WebSocket stream
\* request that has started reaches the end of its handler, and an invocation
\* of the processing handler returns {"batchItemFailures": failed_message_ids}
\* with every record of its event processed.
WsHandlerEnded == mode = "ws" /\ pc = "done"
AsHandlerReturned ==
    /\ mode = "appsync" /\ pc = "idle"
    /\ Len(outcomes) = BatchRecords
    /\ \A k \in DOMAIN response.batchItemFailures :
          \E i \in DOMAIN outcomes :
              outcomes[i].messageId = response.batchItemFailures[k].itemIdentifier
C26_RunsTerminate ==
    /\ (mode = "ws" /\ pc = "ws_start") ~> WsHandlerEnded
    /\ (mode = "appsync" /\ pc = "record" /\ idx = 1) ~> AsHandlerReturned
C26_Witness ==
    /\ AsHandlerReturned
    /\ outcomes[1].outcome = "true" /\ outcomes[BatchRecords].outcome = "false"
    /\ Len(response.batchItemFailures) = 1

\* C27: under fair delivery, every message a successful start request put on
\* the streaming queue eventually leaves it: it is acknowledged (the invocation
\* that processed it returned without listing it in batchItemFailures) or it is
\* in the dead-letter queue, and is neither visible nor in flight any more.
Enqueued(id) == \E m \in queue : m.messageId = id /\ m.receiveCount = 0
InFlightOrVisible(id) ==
    \/ \E m \in queue : m.messageId = id
    \/ \E i \in DOMAIN event : event[i].messageId = id
DeadLetteredMessage(id) == \E m \in dlq : m.messageId = id
Acknowledged(id) ==
    /\ pc = "idle"
    /\ \E i \in DOMAIN outcomes : outcomes[i].messageId = id
    /\ id \notin FailedIds(response)
C27_MessagesLeaveTheQueue ==
    \A id \in 0..MaxStarts :
        Enqueued(id) ~> (/\ ~InFlightOrVisible(id)
                         /\ (Acknowledged(id) \/ DeadLetteredMessage(id)))
C27_Witness ==
    /\ DeadLetteredMessage(0) /\ ~InFlightOrVisible(0)
    /\ responses[1].status = "streaming_started"
    /\ \A m \in dlq : m.receiveCount = MaxReceiveCount

====
